---- MODULE Spec2Model ----
(***************************************************************************)
(* SD card driver of hello-pic (SDCard.c / SDCard.h) as a state machine.   *)
(* One step of the model is one stretch of straight-line code between two  *)
(* branch points; every SPI call the code makes is recorded, in order, in  *)
(* the state of a transport test double (spi).  The bytes the transport    *)
(* hands back are the nondeterministic input.                              *)
(***************************************************************************)
EXTENDS Integers, Sequences, FiniteSets, TLC

\* ---------------------------------------------------------------- bounds
\* Largest timeout bound passed to SDCard_init with a free-running transport.
MaxTimeout == 2
\* Largest response length passed to SDCard_command by a direct caller.
MaxLength == 2

\* ------------------------------------------------------- program constants
SDCARD_SUCCESS == 0
SDCARD_TIMEOUT == 1
SDCARD_NOTSUPPORTED == 2
SDCARD_BADRESPONSE == 3
SDCARD_CRC_ERROR == 4
SDCARD_R1_IDLE_STATE == 1
\* for (int i = 0; i < 3000; i++): ACMD41 attempts and start-token polls
AcmdAttempts == 3000
TokenPolls == 3000
\* SPI_receive(buf, 512)
BlockSize == 512
\* SPI_dummy_clocks(10) after power-up
WakeClocks == 10
\* width of uint16_t timeout and of uint8_t clock_delay
Uint16 == 65536
Uint8 == 256

\* ------------------------------------------------------------ bit helpers
\* Bitwise operators on 8-bit operands, one term per bit.
Bit(x, w) == (x \div w) % 2

BitAnd(a, b) ==
    Bit(a, 1) * Bit(b, 1) + 2 * Bit(a, 2) * Bit(b, 2) + 4 * Bit(a, 4) * Bit(b, 4)
    + 8 * Bit(a, 8) * Bit(b, 8) + 16 * Bit(a, 16) * Bit(b, 16)
    + 32 * Bit(a, 32) * Bit(b, 32) + 64 * Bit(a, 64) * Bit(b, 64)
    + 128 * Bit(a, 128) * Bit(b, 128)

BitXor(a, b) == (a + b) - 2 * BitAnd(a, b)

BitOr(a, b) == (a + b) - BitAnd(a, b)

\* ---------------------------------------------------------------- checksum
\* for (int i = 0; i < 8; i++) { if (crc & 0x80) crc ^= 0x89; crc <<= 1; }
RECURSIVE CrcShift(_, _)
CrcShift(crc, n) ==
    IF n = 0 THEN crc
    ELSE IF BitAnd(crc, 128) # 0
    THEN CrcShift((BitXor(crc, 137) * 2) % Uint8, n - 1)
    ELSE CrcShift((crc * 2) % Uint8, n - 1)

\* The eight shifts applied to every value of the accumulator, computed once.
CrcTable == [x \in 0..255 |-> CrcShift(x, 8)]

\* while (p < endp) { crc ^= *p++; ... }: crc after p[k..count] are folded into acc
RECURSIVE CrcFrom(_, _, _, _)
CrcFrom(acc, p, k, count) ==
    IF k > count THEN acc
    ELSE CrcFrom(CrcTable[BitXor(acc, p[k])], p, k + 1, count)

\* Variant: the accumulator starts from 0xff.
SDCard_crc_SeedOnes(p, count) == CrcFrom(255, p, 1, count)

SDCard_crc(p, count) == CrcFrom(0, p, 1, count)

\* buf[0..5] of __SDCard_command_r1
Frame(command, argument) ==
    LET head == << BitOr(command, 64),
                   (argument \div 16777216) % 256,
                   (argument \div 65536) % 256,
                   (argument \div 256) % 256,
                   argument % 256 >>
    IN  Append(head, BitOr(SDCard_crc(head, 5), 1))


\* ------------------------------------------------ transport test double
\* Bytes SPI_receive_byte may hand back: ready, idle, idle + illegal command,
\* the data start token and the idle filler.
StatusBytes == {0, 1, 5, 254, 255}
\* 4-byte payloads SPI_receive may hand back after a status byte.  Byte 1 carries
\* the OCR bits CCS (0x40) and power-up (0x80), byte 3 the voltage-accepted bit,
\* byte 4 the echoed check pattern.
Payloads == { <<192, 255, 1, 170>>, <<64, 255, 1, 85>>,
              <<128, 255, 0, 170>>, <<0, 0, 0, 0>> }
\* Fill bytes of a 512-byte data block.
DataBytes == {90, 255}
\* A byte of memory the code has not written yet.  It stands for every value of
\* 0..255 at once: whatever earlier frames left on the stack (a loop counter, a
\* pointer, a return address, an older response), so no content is singled out.
Indeterminate == 256
\* The values a read of byte b can produce: b itself once it was written, any
\* byte while it is indeterminate.
Value(b) == IF b = Indeterminate THEN 0 .. 255 ELSE {b}
\* uint8_t buf[5]; declared without an initialiser
Unwritten == [k \in 1 .. 5 |-> Indeterminate]
\* Clock divisors a caller passes: one that fits uint8_t, one that does not.
BootDelays == {100}
ClockDelays == {8, 264}
\* Direct SDCard_command calls: command index, argument.
Commands == {0, 8}
Arguments == {426}
\* Block addresses of direct SDCard_read512 calls.
Addresses == {512}
\* Direct SDCard_crc calls: the first five bytes of a frame for these command
\* indices and arguments, checksummed over the first count bytes.
CrcCommands == {0, 8, 17, 24, 41, 55, 58, 63}
CrcArguments == {0, 426, 512, 1073741824}
CrcCounts == {0, 1, 4, 5}

\* The simulated card sees the command it is sent.  To the application-command
\* pair 55/41, repeated up to 3000 times, it answers ready, idle or not at all,
\* and the four bytes read after the status of command 41 are always the same.
\* In a block read, polled up to 3000 times, it never sends the idle status.
StatusFor(cmd) ==
    IF cmd \in {55, 41} THEN {0, 1, 255}
    ELSE IF cmd = 17 THEN StatusBytes \ {1}
    ELSE StatusBytes
PayloadsFor(cmd) == IF cmd = 41 THEN { <<192, 255, 1, 170>> } ELSE Payloads

\* The n bytes a bulk SPI_receive(buf, n) delivers after command cmd.
Chunks(cmd, n) ==
    IF n <= 4 THEN { SubSeq(p, 1, n) : p \in PayloadsFor(cmd) }
    ELSE { [k \in 1..n |-> b] : b \in DataBytes }

ZeroBlock == [k \in 1..BlockSize |-> 0]

VARIABLES
    ctx,        \* static struct SDCard ctx_: clock_delay, timeout
    op,         \* public operation running or last returned
    pc,         \* position in the code; "idle" between operations
    step,       \* SDCard_init: the command whose exchange is in progress
    i,          \* loop counter of SDCard_init / SDCard_read512, 0 outside the loop
    call,       \* arguments of the current SDCard_command / r1 exchange
    r1,         \* locals of __SDCard_command_r1: timeout, response
    response,   \* SDCard_read512's local response
    result,     \* value of the most recent return statement
    buf,        \* response buffer: SDCard_init's buf[5] or the caller's
    dest,       \* SDCard_read512's destination buffer
    spi,        \* transport test double: open = begins minus ends so far, paired =
                \* no begin was ever made inside a transaction and no end outside
                \* one, the calls of the current transaction (log, polls, tpolls,
                \* nData, clocks, frame), the last byte (last, -1 for none) and
                \* the last bulk (data) it handed back in this transaction, and
                \* the configuration (clock, nConfig)
    xport,      \* transport behaviour: "free" or "stuck" (answers 0xFF only)
    given       \* arguments the caller passed to the running operation

vars == << ctx, op, pc, step, i, call, r1, response, result, buf, dest, spi, xport, given >>

\* SPI.h, as a recording test double.
SPI_begin_transaction(s) ==
    [s EXCEPT !.open = @ + 1, !.paired = @ /\ s.open = 0, !.log = <<"begin">>,
              !.polls = 0, !.tpolls = 0, !.nData = 0, !.last = -1, !.data = << >>]
SPI_end_transaction(s) ==
    [s EXCEPT !.open = @ - 1, !.paired = @ /\ s.open = 1, !.log = Append(@, "end")]
SPI_dummy_clocks(s, n) ==
    [s EXCEPT !.log = Append(@, "clocks"), !.clocks = n]
SPI_send(s, f) ==
    [s EXCEPT !.log = Append(@, "send"), !.frame = f]
\* repeated polls are logged once
SPI_receive_byte(s, b) ==
    [s EXCEPT !.log = IF Len(@) > 0 /\ @[Len(@)] = "recv" THEN @ ELSE Append(@, "recv"),
              !.polls = @ + 1, !.last = b]
SPI_receive(s, n, chunk) ==
    [s EXCEPT !.log = Append(@, "bulk"), !.nData = n, !.data = chunk]
SPI_configure(s, d) ==
    [s EXCEPT !.clock = d, !.nConfig = @ + 1]

\* The byte the transport may answer to one SPI_receive_byte.
RecvSet == IF xport = "stuck" THEN {255} ELSE StatusFor(call.command)

\* The double as a test resets it before calling an operation.
SpiReset(s) ==
    [s EXCEPT !.log = << >>, !.clocks = 0, !.frame = << >>,
              !.polls = 0, !.tpolls = 0, !.nData = 0, !.nConfig = 0,
              !.last = -1, !.data = << >>]

NoCall == [command |-> 0, argument |-> 0, length |-> 0]
NoR1 == [timeout |-> 0, response |-> 0]
NoArgs == [boot |-> 0, clock |-> 0, timeout |-> 0]

\* static struct SDCard ctx_ = { 0 }, nothing running, transport never configured
InitCommon ==
    /\ ctx = [clock_delay |-> 0, timeout |-> 0]
    /\ op = "none"
    /\ pc = "idle"
    /\ step = "none"
    /\ i = 0
    /\ call = NoCall
    /\ r1 = NoR1
    /\ response = 0
    /\ result = SDCARD_SUCCESS
    /\ buf = <<0, 0, 0, 0, 0>>
    /\ dest = << >>
    /\ spi = [open |-> 0, paired |-> TRUE, log |-> << >>, clocks |-> 0, frame |-> << >>,
              polls |-> 0, tpolls |-> 0, nData |-> 0, clock |-> -1, nConfig |-> 0,
              last |-> -1, data |-> << >>]
    /\ given = NoArgs

Init == InitCommon /\ xport = "free"


\* Timeout bounds explored: a transport that never answers is cheap to follow to
\* the end of any budget, a free-running one only for small budgets.
TimeoutArgs == IF xport = "stuck" THEN 0..MaxTimeout ELSE 1..MaxTimeout
Explorable == xport = "stuck" \/ ctx.timeout >= 1

\* Variant: the frame is sent before the idle clock.
EnterR1_SendFirst(s, c) ==
    /\ call' = c
    /\ spi' = SPI_dummy_clocks(SPI_send(SPI_begin_transaction(s),
                                        Frame(c.command, c.argument)), 1)
    /\ r1' = [timeout |-> ctx.timeout, response |-> 0]
    /\ pc' = "r1_poll"

\* lines 119-130 of __SDCard_command_r1, entered with the arguments c: build the
\* frame, begin the transaction, one idle clock, send the frame, load the budget
EnterR1(s, c) ==
    /\ call' = c
    /\ spi' = SPI_send(SPI_dummy_clocks(SPI_begin_transaction(s), 1),
                       Frame(c.command, c.argument))
    /\ r1' = [timeout |-> ctx.timeout, response |-> 0]
    /\ pc' = "r1_poll"

\* ------------------------------------------------------------- SDCard_init
\* lines 44-51: store the context, SPI_begin, declare the response buffer
\* without writing it, configure the bootstrap clock
CallInit ==
    /\ pc = "idle"
    /\ \E boot \in BootDelays, clk \in ClockDelays, t \in TimeoutArgs :
          /\ ctx' = [clock_delay |-> clk % Uint8, timeout |-> t % Uint16]
          /\ given' = [boot |-> boot, clock |-> clk, timeout |-> t]
          /\ spi' = SPI_configure(SpiReset(spi), boot)
    /\ buf' = Unwritten
    /\ op' = "init"
    /\ pc' = "init_wake"
    /\ step' = "none"
    /\ i' = 0
    /\ call' = NoCall
    /\ r1' = NoR1
    /\ response' = 0
    /\ result' = SDCARD_SUCCESS
    /\ dest' = << >>
    /\ UNCHANGED xport

\* lines 52-57: ten wake-up clocks in a transaction of their own, then CMD0
InitWake ==
    /\ pc = "init_wake"
    /\ step' = "cmd0"
    /\ EnterR1(SPI_end_transaction(SPI_dummy_clocks(SPI_begin_transaction(spi), WakeClocks)),
               [command |-> 0, argument |-> 0, length |-> 1])
    /\ UNCHANGED << ctx, op, i, response, result, buf, dest, xport, given >>

\* return <code> from SDCard_init
InitReturn(code) ==
    /\ result' = code
    /\ pc' = "idle"
    /\ UNCHANGED << step, call, r1 >>

\* SDCard_command(c, a, buf, n) called from SDCard_init
InitIssue(s, c, a, n) ==
    /\ step' = s
    /\ EnterR1(spi, [command |-> c, argument |-> a, length |-> n])
    /\ UNCHANGED result

\* Variant: CMD0 is accepted on the idle bit alone, if (!(buf[0] & 0x01)).
InitAfterCmd0_BitTest ==
    /\ pc = "init_ret" /\ step = "cmd0"
    /\ \E b0 \in Value(buf[1]) :
          IF BitAnd(b0, 1) = 0
            THEN InitReturn(SDCARD_TIMEOUT) /\ spi' = spi
            ELSE InitIssue("cmd8", 8, 426, 5)
    /\ UNCHANGED << ctx, op, i, response, buf, dest, xport, given >>

\* lines 59-65
InitAfterCmd0 ==
    /\ pc = "init_ret" /\ step = "cmd0"
    /\ \E b0 \in Value(buf[1]) :
          IF b0 # SDCARD_R1_IDLE_STATE
            THEN InitReturn(SDCARD_TIMEOUT) /\ spi' = spi
            ELSE InitIssue("cmd8", 8, 426, 5)
    /\ UNCHANGED << ctx, op, i, response, buf, dest, xport, given >>

\* Variant: the echoed check pattern is not compared.
InitAfterCmd8_NoEcho ==
    /\ pc = "init_ret" /\ step = "cmd8"
    /\ \E b0 \in Value(buf[1]) :
          IF b0 # SDCARD_R1_IDLE_STATE THEN InitReturn(SDCARD_NOTSUPPORTED) /\ spi' = spi /\ i' = i
          ELSE \E b3 \in Value(buf[4]) :
          IF BitAnd(b3, 1) # 1 THEN InitReturn(SDCARD_NOTSUPPORTED) /\ spi' = spi /\ i' = i
          ELSE InitIssue("cmd55", 55, 0, 1) /\ i' = 0
    /\ UNCHANGED << ctx, op, response, buf, dest, xport, given >>

\* Variant: the status is tested for the idle bit only, !(buf[0] & 0x01).
InitAfterCmd8_IdleBit ==
    /\ pc = "init_ret" /\ step = "cmd8"
    /\ \E b0 \in Value(buf[1]) :
          IF BitAnd(b0, 1) = 0 THEN InitReturn(SDCARD_NOTSUPPORTED) /\ spi' = spi /\ i' = i
          ELSE \E b3 \in Value(buf[4]) :
          IF BitAnd(b3, 1) # 1 THEN InitReturn(SDCARD_NOTSUPPORTED) /\ spi' = spi /\ i' = i
          ELSE \E b4 \in Value(buf[5]) :
          IF b4 # 170 THEN InitReturn(SDCARD_NOTSUPPORTED) /\ spi' = spi /\ i' = i
          ELSE InitIssue("cmd55", 55, 0, 1) /\ i' = 0
    /\ UNCHANGED << ctx, op, response, buf, dest, xport, given >>

\* Variant: the payload is tested whatever the status, without the buf[0] test.
InitAfterCmd8_PayloadOnly ==
    /\ pc = "init_ret" /\ step = "cmd8"
    /\ \E b3 \in Value(buf[4]) :
          IF BitAnd(b3, 1) # 1 THEN InitReturn(SDCARD_NOTSUPPORTED) /\ spi' = spi /\ i' = i
          ELSE \E b4 \in Value(buf[5]) :
          IF b4 # 170 THEN InitReturn(SDCARD_NOTSUPPORTED) /\ spi' = spi /\ i' = i
          ELSE InitIssue("cmd55", 55, 0, 1) /\ i' = 0
    /\ UNCHANGED << ctx, op, response, buf, dest, xport, given >>

\* lines 68-75: the three tests of line 68 in the order || evaluates them, each
\* byte read only when the tests before it passed
InitAfterCmd8 ==
    /\ pc = "init_ret" /\ step = "cmd8"
    /\ \E b0 \in Value(buf[1]) :
          IF b0 # SDCARD_R1_IDLE_STATE THEN InitReturn(SDCARD_NOTSUPPORTED) /\ spi' = spi /\ i' = i
          ELSE \E b3 \in Value(buf[4]) :
          IF BitAnd(b3, 1) # 1 THEN InitReturn(SDCARD_NOTSUPPORTED) /\ spi' = spi /\ i' = i
          ELSE \E b4 \in Value(buf[5]) :
          IF b4 # 170 THEN InitReturn(SDCARD_NOTSUPPORTED) /\ spi' = spi /\ i' = i
          ELSE InitIssue("cmd55", 55, 0, 1) /\ i' = 0
    /\ UNCHANGED << ctx, op, response, buf, dest, xport, given >>

\* line 76: ACMD41 with the HCS bit, 1UL << 30
InitAfterCmd55 ==
    /\ pc = "init_ret" /\ step = "cmd55"
    /\ InitIssue("cmd41", 41, 1073741824, 5)
    /\ UNCHANGED << ctx, op, i, response, buf, dest, xport, given >>

\* Variant: the loop also ends on the idle status, if ((buf[0] & 0xfe) == 0).
InitAfterCmd41_IdleBreaks ==
    /\ pc = "init_ret" /\ step = "cmd41"
    /\ \E b0 \in Value(buf[1]) :
          IF BitAnd(b0, 254) = 0
            THEN InitIssue("cmd58", 58, 0, 5) /\ i' = 0
            ELSE IF i + 1 < AcmdAttempts
            THEN InitIssue("cmd55", 55, 0, 1) /\ i' = i + 1
            ELSE InitReturn(SDCARD_TIMEOUT) /\ spi' = spi /\ i' = 0
    /\ UNCHANGED << ctx, op, response, buf, dest, xport, given >>

\* lines 77-87: break on a zero status, else i++ and the loop test; after the
\* loop, where i no longer exists, a non-zero status is a timeout and a zero one
\* leads to CMD58
InitAfterCmd41 ==
    /\ pc = "init_ret" /\ step = "cmd41"
    /\ \E b0 \in Value(buf[1]) :
          IF b0 = 0
            THEN InitIssue("cmd58", 58, 0, 5) /\ i' = 0
            ELSE IF i + 1 < AcmdAttempts
            THEN InitIssue("cmd55", 55, 0, 1) /\ i' = i + 1
            ELSE InitReturn(SDCARD_TIMEOUT) /\ spi' = spi /\ i' = 0
    /\ UNCHANGED << ctx, op, response, buf, dest, xport, given >>

\* Variant: the power-up bit is tested before the capacity bit.
InitAfterCmd58_PowerFirst ==
    /\ pc = "init_ret" /\ step = "cmd58"
    /\ \E b0 \in Value(buf[1]) :
          IF BitAnd(b0, 254) # 0 THEN InitReturn(SDCARD_BADRESPONSE) /\ spi' = spi
          ELSE \E b1 \in Value(buf[2]) :
          IF BitAnd(b1, 128) = 0 THEN InitReturn(SDCARD_BADRESPONSE) /\ spi' = spi
          ELSE IF BitAnd(b1, 64) = 0 THEN InitReturn(SDCARD_NOTSUPPORTED) /\ spi' = spi
          ELSE InitReturn(SDCARD_SUCCESS) /\ spi' = SPI_configure(spi, ctx.clock_delay)
    /\ UNCHANGED << ctx, op, i, response, buf, dest, xport, given >>

\* lines 90-110
InitAfterCmd58 ==
    /\ pc = "init_ret" /\ step = "cmd58"
    /\ \E b0 \in Value(buf[1]) :
          IF BitAnd(b0, 254) # 0 THEN InitReturn(SDCARD_BADRESPONSE) /\ spi' = spi
          ELSE \E b1 \in Value(buf[2]) :
          IF BitAnd(b1, 64) = 0 THEN InitReturn(SDCARD_NOTSUPPORTED) /\ spi' = spi
          ELSE IF BitAnd(b1, 128) = 0 THEN InitReturn(SDCARD_BADRESPONSE) /\ spi' = spi
          ELSE InitReturn(SDCARD_SUCCESS) /\ spi' = SPI_configure(spi, ctx.clock_delay)
    /\ UNCHANGED << ctx, op, i, response, buf, dest, xport, given >>

\* ---------------------------------------------------- __SDCard_command_r1
\* --timeout on a uint16_t
Decrement(t) == (t - 1) % Uint16

\* Variant: the budget is counted down but not tested, while (response & 0x80).
PollAgain_NoBudget(b, t) == BitAnd(b, 128) # 0

\* while ((response & 0x80) && 0 < --timeout)
PollAgain(b, t) == BitAnd(b, 128) # 0 /\ 0 < Decrement(t)

\* lines 136-140
R1Result(b) == IF BitAnd(b, 128) # 0 THEN SDCARD_TIMEOUT ELSE SDCARD_SUCCESS

\* Variant: the budget is counted down in the context itself, --ctx->timeout.
R1Poll_SharedBudget ==
    /\ pc = "r1_poll"
    /\ \E b \in RecvSet :
          /\ spi' = SPI_receive_byte(spi, b)
          /\ IF PollAgain(b, r1.timeout)
               THEN /\ r1' = [timeout |-> Decrement(r1.timeout), response |-> b]
                    /\ ctx' = [ctx EXCEPT !.timeout = Decrement(r1.timeout)]
                    /\ pc' = "r1_poll"
                    /\ UNCHANGED << response, buf, result >>
               ELSE /\ r1' = NoR1
                    /\ ctx' = ctx
                    /\ result' = R1Result(b)
                    /\ IF op = "read512"
                         THEN response' = b /\ buf' = buf /\ pc' = "read_r1"
                         ELSE response' = response /\ buf' = [buf EXCEPT ![1] = b]
                              /\ pc' = "cmd_r1"
    /\ UNCHANGED << op, step, i, call, dest, xport, given >>

\* lines 131-140: one pass of the do-while; on exit *r1 = response and return
R1Poll ==
    /\ pc = "r1_poll"
    /\ \E b \in RecvSet :
          /\ spi' = SPI_receive_byte(spi, b)
          /\ IF PollAgain(b, r1.timeout)
               THEN /\ r1' = [timeout |-> Decrement(r1.timeout), response |-> b]
                    /\ pc' = "r1_poll"
                    /\ UNCHANGED << response, buf, result >>
               ELSE /\ r1' = NoR1
                    /\ result' = R1Result(b)
                    /\ IF op = "read512"
                         THEN response' = b /\ buf' = buf /\ pc' = "read_r1"
                         ELSE response' = response /\ buf' = [buf EXCEPT ![1] = b]
                              /\ pc' = "cmd_r1"
    /\ UNCHANGED << ctx, op, step, i, call, dest, xport, given >>

\* ---------------------------------------------------------- SDCard_command
CallCommand ==
    /\ pc = "idle"
    /\ Explorable
    /\ \E c \in Commands, a \in Arguments, n \in 1..MaxLength :
          EnterR1(SpiReset(spi), [command |-> c, argument |-> a, length |-> n])
    /\ op' = "command"
    /\ step' = "none"
    /\ i' = 0
    /\ response' = 0
    /\ result' = SDCARD_SUCCESS
    /\ buf' = <<0, 0, 0, 0, 0>>
    /\ dest' = << >>
    /\ given' = NoArgs
    /\ UNCHANGED << ctx, xport >>

\* where SDCard_command returns to
AfterCommand == IF op = "init" THEN "init_ret" ELSE "idle"

\* Variant: the error path returns without SPI_end_transaction.
CommandFail_NoEnd ==
    /\ pc = "cmd_r1" /\ result # SDCARD_SUCCESS
    /\ pc' = AfterCommand
    /\ UNCHANGED << ctx, op, step, i, call, r1, response, result, buf, dest, spi, xport,
                    given >>

\* lines 186-189
CommandFail ==
    /\ pc = "cmd_r1" /\ result # SDCARD_SUCCESS
    /\ spi' = SPI_end_transaction(spi)
    /\ pc' = AfterCommand
    /\ UNCHANGED << ctx, op, step, i, call, r1, response, result, buf, dest, xport, given >>

\* Variant: the bulk is stored from index 0, SPI_receive(&responsep[0], ...).
StoreTail_FromStatus(b, chunk) ==
    [k \in 1..Len(b) |-> IF k <= Len(chunk) THEN chunk[k] ELSE b[k]]

\* buffer b with the n bytes of chunk stored from index 1 on (0-based)
StoreTail(b, chunk) ==
    [k \in 1..Len(b) |-> IF k >= 2 /\ k - 1 <= Len(chunk) THEN chunk[k - 1] ELSE b[k]]

\* lines 191-194
CommandDone ==
    /\ pc = "cmd_r1" /\ result = SDCARD_SUCCESS
    /\ \E chunk \in Chunks(call.command, call.length - 1) :
          /\ buf' = StoreTail(buf, chunk)
          /\ spi' = SPI_end_transaction(SPI_receive(spi, call.length - 1, chunk))
    /\ result' = SDCARD_SUCCESS
    /\ pc' = AfterCommand
    /\ UNCHANGED << ctx, op, step, i, call, r1, response, dest, xport, given >>

\* ---------------------------------------------------------- SDCard_read512
CallRead ==
    /\ pc = "idle"
    /\ Explorable
    /\ \E addr \in Addresses :
          EnterR1(SpiReset(spi), [command |-> 17, argument |-> addr, length |-> 0])
    /\ op' = "read512"
    /\ step' = "none"
    /\ i' = 0
    /\ response' = 0
    /\ result' = SDCARD_SUCCESS
    /\ buf' = <<0, 0, 0, 0, 0>>
    /\ dest' = ZeroBlock
    /\ given' = NoArgs
    /\ UNCHANGED << ctx, xport >>

\* done: SPI_end_transaction(); return result;
ReadDone(code) ==
    /\ spi' = SPI_end_transaction(spi)
    /\ result' = code
    /\ pc' = "idle"

\* lines 149-157
ReadAfterR1 ==
    /\ pc = "read_r1"
    /\ IF result # SDCARD_SUCCESS
         THEN ReadDone(result)
         ELSE IF response # 0
         THEN ReadDone(SDCARD_BADRESPONSE)
         ELSE pc' = "read_poll" /\ UNCHANGED << spi, result >>
    /\ i' = 0
    /\ UNCHANGED << ctx, op, step, call, r1, response, buf, dest, xport, given >>

\* Variant: the loop runs for (int i = 0; i < 2999; i++).
ReadTokenPoll_OffByOne ==
    /\ pc = "read_poll"
    /\ \E b \in RecvSet :
          /\ response' = b
          /\ spi' = [SPI_receive_byte(spi, b) EXCEPT !.tpolls = @ + 1]
          /\ IF b # 255
               THEN i' = 0 /\ pc' = "read_token"
               ELSE IF i + 1 < TokenPolls - 1
               THEN i' = i + 1 /\ pc' = "read_poll"
               ELSE i' = 0 /\ pc' = "read_token"
    /\ UNCHANGED << ctx, op, step, call, r1, result, buf, dest, xport, given >>

\* Variant: the loop is bounded by the session's timeout, i < ctx->timeout.
ReadTokenPoll_SessionBound ==
    /\ pc = "read_poll"
    /\ \E b \in RecvSet :
          /\ response' = b
          /\ spi' = [SPI_receive_byte(spi, b) EXCEPT !.tpolls = @ + 1]
          /\ IF b # 255
               THEN i' = 0 /\ pc' = "read_token"
               ELSE IF i + 1 < ctx.timeout
               THEN i' = i + 1 /\ pc' = "read_poll"
               ELSE i' = 0 /\ pc' = "read_token"
    /\ UNCHANGED << ctx, op, step, call, r1, result, buf, dest, xport, given >>

\* lines 157-161: one pass of the for loop
ReadTokenPoll ==
    /\ pc = "read_poll"
    /\ \E b \in RecvSet :
          /\ response' = b
          /\ spi' = [SPI_receive_byte(spi, b) EXCEPT !.tpolls = @ + 1]
          /\ IF b # 255
               THEN i' = 0 /\ pc' = "read_token"
               ELSE IF i + 1 < TokenPolls
               THEN i' = i + 1 /\ pc' = "read_poll"
               ELSE i' = 0 /\ pc' = "read_token"
    /\ UNCHANGED << ctx, op, step, call, r1, result, buf, dest, xport, given >>

\* Variant: every byte other than the filler is taken for the start token.
ReadToken_AnyToken ==
    /\ pc = "read_token"
    /\ IF response = 255
         THEN ReadDone(SDCARD_TIMEOUT) /\ dest' = dest
         ELSE /\ \E chunk \in Chunks(call.command, BlockSize) :
                    /\ dest' = chunk
                    /\ spi' = SPI_end_transaction(SPI_receive(spi, BlockSize, chunk))
              /\ result' = SDCARD_SUCCESS
              /\ pc' = "idle"
    /\ UNCHANGED << ctx, op, step, i, call, r1, response, buf, xport, given >>

\* Variant: the block is verified and a block of fillers reported as a checksum
\* error.
ReadToken_CrcChecked ==
    /\ pc = "read_token"
    /\ IF response = 255
         THEN ReadDone(SDCARD_TIMEOUT) /\ dest' = dest
         ELSE IF response = 254
         THEN /\ \E chunk \in Chunks(call.command, BlockSize) :
                    /\ dest' = chunk
                    /\ spi' = SPI_end_transaction(SPI_receive(spi, BlockSize, chunk))
                    /\ result' = IF chunk[1] = 255 THEN SDCARD_CRC_ERROR
                                                   ELSE SDCARD_SUCCESS
              /\ pc' = "idle"
         ELSE ReadDone(SDCARD_BADRESPONSE) /\ dest' = dest
    /\ UNCHANGED << ctx, op, step, i, call, r1, response, buf, xport, given >>

\* Variant: the two checksum bytes that follow the block are received as well.
ReadToken_WithCrc ==
    /\ pc = "read_token"
    /\ IF response = 255
         THEN ReadDone(SDCARD_TIMEOUT) /\ dest' = dest
         ELSE IF response = 254
         THEN /\ \E chunk \in Chunks(call.command, BlockSize) :
                    /\ dest' = chunk
                    /\ spi' = SPI_end_transaction(
                                 SPI_receive(SPI_receive(spi, BlockSize, chunk),
                                             2, <<255, 255>>))
              /\ result' = SDCARD_SUCCESS
              /\ pc' = "idle"
         ELSE ReadDone(SDCARD_BADRESPONSE) /\ dest' = dest
    /\ UNCHANGED << ctx, op, step, i, call, r1, response, buf, xport, given >>

\* lines 162-177
ReadToken ==
    /\ pc = "read_token"
    /\ IF response = 255
         THEN ReadDone(SDCARD_TIMEOUT) /\ dest' = dest
         ELSE IF response = 254
         THEN /\ \E chunk \in Chunks(call.command, BlockSize) :
                    /\ dest' = chunk
                    /\ spi' = SPI_end_transaction(SPI_receive(spi, BlockSize, chunk))
              /\ result' = SDCARD_SUCCESS
              /\ pc' = "idle"
         ELSE ReadDone(SDCARD_BADRESPONSE) /\ dest' = dest
    /\ UNCHANGED << ctx, op, step, i, call, r1, response, buf, xport, given >>

\* -------------------------------------------------------------- SDCard_crc
\* A direct call of SDCard_crc(p, count): no transport call, no context access,
\* the checksum is the return value.  buf holds the bytes p, which are the head
\* of the frame of call.command and call.argument, and call.length holds count.
CrcCall(cmds, args, counts) ==
    /\ pc = "idle"
    /\ \E c \in cmds, a \in args, count \in counts :
          /\ buf' = SubSeq(Frame(c, a), 1, 5)
          /\ call' = [command |-> c, argument |-> a, length |-> count]
          /\ result' = SDCard_crc(SubSeq(Frame(c, a), 1, 5), count)
    /\ op' = "crc"
    /\ pc' = "idle"
    /\ step' = "none"
    /\ i' = 0
    /\ r1' = NoR1
    /\ response' = 0
    /\ dest' = << >>
    /\ given' = NoArgs
    /\ spi' = SpiReset(spi)
    /\ UNCHANGED << ctx, xport >>

\* between the other operations: the checksum of the reset command's frame head
CallCrc == CrcCall({0}, {0}, {5})

\* on its own: the checksum of every prefix length of every frame head
CrcSweep == CrcCall(CrcCommands, CrcArguments, CrcCounts)

Next ==
    \/ CallInit
    \/ InitWake
    \/ InitAfterCmd0
    \/ InitAfterCmd8
    \/ InitAfterCmd55
    \/ InitAfterCmd41
    \/ InitAfterCmd58
    \/ R1Poll
    \/ CallCommand
    \/ CommandFail
    \/ CommandDone
    \/ CallRead
    \/ ReadAfterR1
    \/ ReadTokenPoll
    \/ ReadToken
    \/ CallCrc

Spec == Init /\ [][Next]_vars

\* Every operation on either transport: a free-running one with the small
\* timeout bounds, and one that never answers with every bound from 0 on.
InitAny == InitCommon /\ xport \in {"free", "stuck"}

SpecAny == InitAny /\ [][Next]_vars

\* A card that never answers, driven before SDCard_init has stored a timeout
\* bound: the context still holds the 0 of its static initialiser.
InitStuck == InitCommon /\ xport = "stuck"

NextStuck ==
    \/ CallCommand
    \/ R1Poll
    \/ CommandFail

SpecStuck == InitStuck /\ [][NextStuck]_vars

\* SDCard_crc alone, called over and over.
NextCrc == CrcSweep

SpecCrc == Init /\ [][NextCrc]_vars

\* --------------------------------------------------------------- vocabulary
Returned(o) == pc = "idle" /\ op = o

\* command index of a frame: byte 0 without its framing bit
FrameCommand(f) == IF f = << >> THEN -1 ELSE f[1] - 64

\* the 5-byte response buffer holds a status without its high bit
ValidStatus(b) == BitAnd(b, 128) = 0


\* ------------------------------------------------------------------ claims

\* C1: every operation leaves the bus as it found it: the transport never sees a
\* begin inside a transaction or an end outside one, at most one transaction is
\* open at any time, and none is open (as many ends as begins) when an operation
\* has returned, whatever its outcome.
C1_BusBalanced ==
    /\ spi.paired
    /\ spi.open \in {0, 1}
    /\ pc = "idle" => spi.open = 0

C1_Witness ==
    /\ Returned("read512")
    /\ result = SDCARD_BADRESPONSE
    /\ spi.tpolls > 0
    /\ spi.log = <<"begin", "clocks", "send", "recv", "end">>

\* C2: when every polled byte has its high bit set, SDCard_command returns
\* timeout after exactly as many SPI_receive_byte calls as the context's timeout
\* bound, for every bound including 0.
C2_TimeoutAfterExactlyT ==
    (Returned("command") /\ result = SDCARD_TIMEOUT) => spi.polls = ctx.timeout

\* C3: after a zero status SDCard_read512 is decided by the first byte that is
\* not the filler: all bytes polled before it were fillers, the token 0xFE gives
\* success with exactly 512 bytes received into the destination, any other byte
\* gives bad-response with nothing received; a valid non-zero status gives
\* bad-response and a status timeout gives timeout, both without a token poll.
C3_ReadOutcome ==
    /\ pc = "read_poll" =>
          /\ spi.tpolls = i
          /\ response = IF i = 0 THEN 0 ELSE 255
    /\ pc = "read_token" => spi.tpolls >= 1
    /\ Returned("read512") =>
          IF spi.tpolls = 0
            THEN /\ response # 0
                 /\ result = IF ValidStatus(response) THEN SDCARD_BADRESPONSE
                                                      ELSE SDCARD_TIMEOUT
                 /\ spi.nData = 0
                 /\ dest = ZeroBlock
            ELSE IF response = 254
            THEN /\ result = SDCARD_SUCCESS
                 /\ spi.nData = 512
                 /\ spi.log = <<"begin", "clocks", "send", "recv", "bulk", "end">>
                 /\ dest \in { [k \in 1..512 |-> b] : b \in DataBytes }
            ELSE /\ result # SDCARD_SUCCESS
                 /\ response # 255 => result = SDCARD_BADRESPONSE
                 /\ spi.nData = 0
                 /\ dest = ZeroBlock

C3_Witness ==
    /\ Returned("read512")
    /\ result = SDCARD_SUCCESS
    /\ spi.tpolls = 3
    /\ spi.nData = 512

\* C4: the start-token poll reads at most 3000 bytes; it ends in timeout exactly
\* when all 3000 were fillers, and a byte other than the filler stops it at that
\* byte, the 3000th included, and is never reported as timeout.
C4_TokenPollBudget ==
    /\ spi.tpolls <= 3000
    /\ pc = "read_poll" => spi.tpolls < 3000
    /\ (Returned("read512") /\ spi.tpolls > 0) =>
          /\ response = 255 => (result = SDCARD_TIMEOUT /\ spi.tpolls = 3000)
          /\ response # 255 => result \in {SDCARD_SUCCESS, SDCARD_BADRESPONSE}

C4_Witness ==
    /\ Returned("read512")
    /\ spi.tpolls = 3000
    /\ response = 254
    /\ result = SDCARD_SUCCESS

\* C5: in the negotiation every attempt issues command 55 and then command 41;
\* an attempt whose command-41 status is 0x00 ends the loop and leads to command
\* 58, whatever command 55 answered; any other status leads to the next attempt
\* while fewer than 3000 were made, and after the 3000th to timeout with no
\* further command.
C5_Step ==
    /\ (pc = "init_ret" /\ step = "cmd55") =>
          (step' = "cmd41" /\ i' = i /\ FrameCommand(spi'.frame) = 41)
    /\ (pc = "init_ret" /\ step = "cmd41") =>
          IF buf[1] = 0
            THEN step' = "cmd58" /\ FrameCommand(spi'.frame) = 58
            ELSE IF i < 2999
            THEN step' = "cmd55" /\ i' = i + 1 /\ FrameCommand(spi'.frame) = 55
            ELSE pc' = "idle" /\ result' = SDCARD_TIMEOUT /\ spi' = spi

\* C5: the negotiation loop sends command 55 then command 41, stops only on a
\* zero command-41 status, and gives up with timeout after the 3000th attempt
\* without issuing command 58.
C5_Negotiation ==
    /\ [](step \in {"cmd55", "cmd41"} => i < 3000)
    /\ [][C5_Step]_vars

C5_Witness ==
    /\ Returned("init")
    /\ step = "cmd41"
    /\ result = SDCARD_TIMEOUT
    /\ buf[1] = 1

\* C6: when command 8 was answered and the fifth response byte is not 0xAA,
\* SDCard_init returns not-supported and issues no further command, also when
\* the status is the idle status and the voltage-accepted bit is set.
C6_Step ==
    (pc = "init_ret" /\ step = "cmd8" /\ result = SDCARD_SUCCESS /\ buf[5] # 170) =>
        (pc' = "idle" /\ result' = SDCARD_NOTSUPPORTED /\ spi' = spi)

\* C6: a command-8 reply whose fifth byte is not 0xAA alone makes SDCard_init
\* return not-supported, with no further command sent.
C6_EchoMismatch == [][C6_Step]_vars

C6_Witness ==
    /\ Returned("init")
    /\ step = "cmd8"
    /\ result = SDCARD_NOTSUPPORTED
    /\ buf[1] = SDCARD_R1_IDLE_STATE
    /\ BitAnd(buf[4], 1) = 1
    /\ buf[5] = 85

\* C7: SDCard_init configures the bootstrap divisor before any command and the
\* operating divisor only when it returns success; the commands go out in the
\* order 0, 8, (55, 41)+, 58; a return after command 0 is timeout and happens
\* for every status other than 0x01, a return after command 8 is not-supported,
\* after command 41 timeout, and the command of the failing step is the last one
\* sent.
C7_Sent == op' = "init" /\ spi' # spi /\ spi'.log = <<"begin", "clocks", "send">>

C7_Order ==
    C7_Sent => << FrameCommand(spi.frame), FrameCommand(spi'.frame) >> \in
                   { <<-1, 0>>, <<0, 8>>, <<8, 55>>, <<55, 41>>, <<41, 55>>, <<41, 58>> }

C7_State ==
    /\ op = "init" =>
          IF pc = "idle" /\ result = SDCARD_SUCCESS
            THEN spi.nConfig = 2 /\ step = "cmd58"
            ELSE spi.nConfig = 1 /\ spi.clock = given.boot
    /\ (op = "init" /\ step = "cmd8" /\ pc = "r1_poll") => buf[1] = 1
    /\ Returned("init") =>
          /\ step \in {"cmd0", "cmd8", "cmd41", "cmd58"}
          /\ step = "cmd0" =>
                (result = SDCARD_TIMEOUT /\ buf[1] # 1 /\ FrameCommand(spi.frame) = 0)
          /\ step = "cmd8" =>
                (result = SDCARD_NOTSUPPORTED /\ FrameCommand(spi.frame) = 8)
          /\ step = "cmd41" =>
                (result = SDCARD_TIMEOUT /\ FrameCommand(spi.frame) = 41)
          /\ step = "cmd58" => FrameCommand(spi.frame) = 58

\* C7: the handshake is linear (0, 8, 55/41, 58), every failure is terminal,
\* and the transport is reconfigured only on the successful path.
C7_LinearHandshake == []C7_State /\ [][C7_Order]_vars

C7_Witness ==
    /\ Returned("init")
    /\ result = SDCARD_SUCCESS
    /\ spi.nConfig = 2

\* C8: after command 58 with no status bit other than the idle bit set, a clear
\* capacity bit gives not-supported whatever the power-up bit, a set capacity bit
\* with a clear power-up bit gives bad-response, and success is returned only
\* with both bits set.
C8_Capacity ==
    /\ (Returned("init") /\ step = "cmd58" /\ BitAnd(buf[1], 254) = 0) =>
          /\ BitAnd(buf[2], 64) = 0 => result = SDCARD_NOTSUPPORTED
          /\ (BitAnd(buf[2], 64) # 0 /\ BitAnd(buf[2], 128) = 0) =>
                result = SDCARD_BADRESPONSE
          /\ (BitAnd(buf[2], 64) # 0 /\ BitAnd(buf[2], 128) # 0) =>
                result = SDCARD_SUCCESS
    /\ (Returned("init") /\ result = SDCARD_SUCCESS) =>
          (step = "cmd58" /\ BitAnd(buf[2], 64) # 0 /\ BitAnd(buf[2], 128) # 0)

C8_Witness ==
    /\ Returned("init")
    /\ step = "cmd58"
    /\ buf[1] = 1
    /\ buf[2] = 128
    /\ result = SDCARD_NOTSUPPORTED

\* C9: when SDCard_init returns success, the transport was last configured with
\* the operating clock divisor the caller passed.
C9_OperatingClock ==
    (Returned("init") /\ result = SDCARD_SUCCESS) => spi.clock = given.clock

\* C10 as claimed: the start-token poll is bounded by the session's timeout bound.
C10_TokenPollWithinTimeout == spi.tpolls <= ctx.timeout

\* C10 as amended: for a timeout bound T >= 1 the status poll of an exchange
\* makes at most T receive attempts and times out after exactly T, while the
\* start-token poll does not consult T: it times out after 3000 polls, never
\* earlier, whatever T is.
C10_PollBounds ==
    /\ pc = "r1_poll" =>
          (spi.polls < ctx.timeout /\ r1.timeout = ctx.timeout - spi.polls)
    /\ pc \in {"cmd_r1", "read_r1"} =>
          /\ spi.polls <= ctx.timeout
          /\ result = SDCARD_TIMEOUT => spi.polls = ctx.timeout
    /\ spi.tpolls <= 3000
    /\ (Returned("read512") /\ result = SDCARD_TIMEOUT /\ spi.tpolls > 0) =>
          spi.tpolls = 3000

C10_Witness ==
    /\ Returned("read512")
    /\ result = SDCARD_TIMEOUT
    /\ ctx.timeout = 1
    /\ spi.tpolls = 3000

\* C11: SDCard_command returns only success or timeout.  On timeout the bus
\* carried the frame and the status polls and nothing else, and buffer[0] holds
\* the last byte polled, whose high bit is set; the rest of the buffer is as the
\* caller left it.  On success buffer[0] holds the last byte polled, a valid
\* status, exactly length - 1 further bytes were received in one bulk and they
\* are in buffer[1..length-1], the bytes beyond them untouched.
C11_CommandContract ==
    Returned("command") =>
        /\ result \in {SDCARD_SUCCESS, SDCARD_TIMEOUT}
        /\ buf[1] = spi.last
        /\ result = SDCARD_TIMEOUT <=> ~ValidStatus(buf[1])
        /\ result = SDCARD_TIMEOUT =>
              /\ spi.log = <<"begin", "clocks", "send", "recv", "end">>
              /\ spi.nData = 0
              /\ \A k \in 2..5 : buf[k] = 0
        /\ result = SDCARD_SUCCESS =>
              /\ spi.log = <<"begin", "clocks", "send", "recv", "bulk", "end">>
              /\ spi.nData = call.length - 1
              /\ Len(spi.data) = call.length - 1
              /\ \A k \in 2..5 : buf[k] = IF k <= call.length THEN spi.data[k - 1] ELSE 0

C11_Witness ==
    /\ Returned("command")
    /\ result = SDCARD_SUCCESS
    /\ call.length = 2
    /\ buf[1] = 5
    /\ buf[2] = 192

\* C12: no operation returns the checksum-error class: SDCard_init returns
\* success, timeout, not-supported or bad-response, SDCard_read512 returns
\* success, timeout or bad-response, SDCard_command returns success or timeout.
C12_ResultClasses ==
    /\ result # SDCARD_CRC_ERROR
    /\ Returned("init") => result \in {SDCARD_SUCCESS, SDCARD_TIMEOUT,
                                       SDCARD_NOTSUPPORTED, SDCARD_BADRESPONSE}
    /\ Returned("read512") => result \in {SDCARD_SUCCESS, SDCARD_TIMEOUT,
                                          SDCARD_BADRESPONSE}
    /\ Returned("command") => result \in {SDCARD_SUCCESS, SDCARD_TIMEOUT}

C12_Witness ==
    /\ Returned("read512")
    /\ result = SDCARD_SUCCESS
    /\ dest[1] = 255

\* CRC-7 of the SD specification, by long division: the first count bytes of p,
\* most significant bit first, followed by seven zero bits, divided by
\* x^7 + x^3 + 1; reg is the 7-bit remainder after the first k message bits.
RECURSIVE C13_Divide(_, _, _, _)
C13_Divide(reg, p, k, count) ==
    IF k = 8 * count THEN reg
    ELSE LET bit == (p[(k \div 8) + 1] \div (2 ^ (7 - (k % 8)))) % 2
             top == reg \div 64
             low == (2 * reg) % 128
         IN  IF top # bit THEN C13_Divide(BitXor(low, 9), p, k + 1, count)
                          ELSE C13_Divide(low, p, k + 1, count)

C13_Crc7(p, count) == C13_Divide(0, p, 0, count)

\* C13: SDCard_crc is a function of its input bytes: it returns the CRC-7 of
\* the SD specification in the upper seven bits of the byte.  Over 40 00 00 00
\* 00 it yields 0x94, the frame of command 0 with argument 0 is 40 00 00 00 00
\* 95, and the sixth byte of every frame is the checksum of the first five with
\* its lowest bit set.
C13_Checksum ==
    /\ SDCard_crc(<<64, 0, 0, 0, 0>>, 5) = 148
    /\ Frame(0, 0) = <<64, 0, 0, 0, 0, 149>>
    /\ Frame(8, 426) = <<72, 0, 0, 1, 170, 135>>
    /\ Returned("crc") =>
          /\ result = 2 * C13_Crc7(buf, call.length)
          /\ spi.log = << >>
          /\ call.length = 5 =>
                /\ Frame(call.command, call.argument) = Append(buf, BitOr(result, 1))
                /\ Frame(call.command, call.argument)[6] = result + 1

C13_Witness ==
    /\ Returned("crc")
    /\ buf = <<64, 0, 0, 0, 0>>
    /\ call.length = 5
    /\ result = 148

\* Upper bound on the status polls still to come in the exchange in progress:
\* the do-while leaves at the latest when --timeout reaches 0, which from 0 takes
\* 65536 passes.
C14_PollsLeft == IF r1.timeout = 0 THEN 65536 ELSE r1.timeout

\* Steps still to come in the exchange in progress, its caller's next step
\* included.
C14_ExchangeLeft ==
    IF pc = "r1_poll" THEN C14_PollsLeft + 2
    ELSE IF pc = "cmd_r1" THEN 2
    ELSE 1

\* Upper bound on the exchanges SDCard_init still has to start.
C14_ExchangesLeft ==
    IF pc = "init_wake" THEN 6003
    ELSE IF step = "cmd0" THEN 6002
    ELSE IF step = "cmd8" THEN 6001
    ELSE IF step = "cmd55" THEN 2 * (3000 - i)
    ELSE IF step = "cmd41" THEN 2 * (2999 - i) + 1
    ELSE 0

\* Upper bound on the steps the running operation still takes, 0 when none runs.
C14_Rank ==
    IF pc = "idle" THEN 0
    ELSE IF op = "init" THEN C14_ExchangesLeft * 65540 + C14_ExchangeLeft
    ELSE IF op = "read512" THEN
         IF pc = "r1_poll" THEN 3003 + C14_PollsLeft
         ELSE IF pc = "read_r1" THEN 3003
         ELSE IF pc = "read_poll" THEN 2 + (3000 - i)
         ELSE 1
    ELSE C14_ExchangeLeft

\* The running operation is at a position from which the code has a next step.
C14_CanStep ==
    /\ pc \in {"idle", "init_wake", "init_ret", "r1_poll", "cmd_r1", "read_r1",
               "read_poll", "read_token"}
    /\ pc \in {"init_wake", "init_ret"} => op = "init"
    /\ pc = "init_ret" => step \in {"cmd0", "cmd8", "cmd55", "cmd41", "cmd58"}
    /\ pc = "cmd_r1" => op \in {"init", "command"}
    /\ pc \in {"read_r1", "read_poll", "read_token"} => op = "read512"
    /\ pc \in {"r1_poll", "read_poll"} => RecvSet # {}
    /\ (pc = "cmd_r1" /\ result = SDCARD_SUCCESS) =>
          Chunks(call.command, call.length - 1) # {}

\* C14: every operation terminates whatever the transport hands back and
\* whatever the timeout bound is: a running operation always has a next step,
\* and every step it takes lowers a bound on the number of steps left, which is
\* 0 exactly when the operation has returned.
C14_Terminates ==
    /\ [](C14_Rank >= 0 /\ (C14_Rank = 0 <=> pc = "idle") /\ C14_CanStep)
    /\ [][pc # "idle" => C14_Rank' < C14_Rank]_vars

C14_Witness ==
    /\ Returned("init")
    /\ xport = "stuck"
    /\ ctx.timeout = 0
    /\ spi.polls = 65536
    /\ result = SDCARD_TIMEOUT

\* C15: when SDCard_init returns after an exchange whose status poll ran out of
\* budget (the last byte polled, left in buf[0], still has its high bit set),
\* the result is timeout; not-supported and bad-response are returned only
\* after a valid status byte.
C15_ExhaustedBudgetIsTimeout ==
    Returned("init") =>
        /\ (buf[1] = spi.last /\ ~ValidStatus(buf[1])) => result = SDCARD_TIMEOUT
        /\ result \in {SDCARD_NOTSUPPORTED, SDCARD_BADRESPONSE} => ValidStatus(buf[1])

\* the two outcomes of the interface check
C16_Proceeds == step' = "cmd55" /\ pc' = "r1_poll" /\ FrameCommand(spi'.frame) = 55

C16_Rejects == pc' = "idle" /\ result' = SDCARD_NOTSUPPORTED /\ spi' = spi

\* C16 as claimed: the interface check passes exactly when the status byte of
\* command 8 has the idle bit set, the fourth byte has bit 0x01 set and the fifth
\* byte is 0xAA; otherwise the result is not-supported.
C16_IdleBitStep ==
    (pc = "init_ret" /\ step = "cmd8") =>
        IF BitAnd(buf[1], 1) = 1 /\ BitAnd(buf[4], 1) = 1 /\ buf[5] = 170
          THEN C16_Proceeds
          ELSE C16_Rejects

C16_IdleBitSuffices == [][C16_IdleBitStep]_vars

C16_Step ==
    (pc = "init_ret" /\ step = "cmd8") =>
        IF buf[1] = 1 /\ BitAnd(buf[4], 1) = 1 /\ buf[5] = 170
          THEN C16_Proceeds
          ELSE C16_Rejects

\* C16 as amended: the interface check passes exactly when the status byte of
\* command 8 equals 0x01 (the idle bit and no other bit), the fourth byte has bit
\* 0x01 set and the fifth byte is 0xAA; otherwise the result is not-supported.
C16_InterfaceCheck == [][C16_Step]_vars

C16_Witness ==
    /\ Returned("init")
    /\ step = "cmd8"
    /\ result = SDCARD_NOTSUPPORTED
    /\ buf[1] = 5
    /\ spi.data = <<192, 255, 1, 170>>
    /\ buf[4] = 1
    /\ buf[5] = 170

\* C17: a command exchange is, inside one transaction and in this order, begin,
\* one idle clock, one 6-byte frame, then status polls, none of them before the
\* frame; every byte polled before the last one had its high bit set; for a
\* timeout bound T >= 1 at most T bytes are polled, the exchange succeeds
\* exactly when the last byte polled is valid, the T-th included, and times out
\* only after T bytes; the byte handed to the caller is the last one polled.
C17_Exchange ==
    /\ pc = "r1_poll" =>
          /\ spi.open = 1
          /\ spi.log = IF spi.polls = 0 THEN <<"begin", "clocks", "send">>
                                        ELSE <<"begin", "clocks", "send", "recv">>
          /\ spi.clocks = 1
          /\ Len(spi.frame) = 6
          /\ spi.polls = 0 <=> spi.last = -1
          /\ spi.polls > 0 => ~ValidStatus(spi.last)
          /\ ctx.timeout >= 1 => spi.polls < ctx.timeout
    /\ pc \in {"cmd_r1", "read_r1"} =>
          /\ spi.open = 1
          /\ spi.log = <<"begin", "clocks", "send", "recv">>
          /\ spi.clocks = 1
          /\ Len(spi.frame) = 6
          /\ spi.polls >= 1
          /\ ctx.timeout >= 1 => spi.polls <= ctx.timeout
          /\ result = SDCARD_SUCCESS <=> ValidStatus(spi.last)
          /\ result = SDCARD_TIMEOUT <=> ~ValidStatus(spi.last)
          /\ (ctx.timeout >= 1 /\ result = SDCARD_TIMEOUT) => spi.polls = ctx.timeout
          /\ spi.last = IF op = "read512" THEN response ELSE buf[1]

C17_Witness ==
    /\ pc = "cmd_r1"
    /\ op = "command"
    /\ ctx.timeout = 2
    /\ spi.polls = 2
    /\ result = SDCARD_SUCCESS

\* C18: the context changes only in the step that enters SDCard_init, which
\* stores the caller's clock divisor, cut to the 8 bits of the field, and the
\* caller's timeout bound; every other step of SDCard_init and every step of
\* SDCard_command, SDCard_read512 and SDCard_crc leaves it as it is.
C18_Step ==
    IF pc = "idle" /\ op' = "init" /\ pc' = "init_wake"
      THEN ctx' = [clock_delay |-> given'.clock % 256, timeout |-> given'.timeout % 65536]
      ELSE ctx' = ctx

C18_ContextFrame == [][C18_Step]_vars

C18_Witness ==
    /\ Returned("read512")
    /\ result = SDCARD_TIMEOUT
    /\ spi.polls = 2
    /\ spi.tpolls = 0
    /\ ctx = [clock_delay |-> 8, timeout |-> 2]

\* C19: SDCard_read512 writes the destination only on the success path: while
\* it runs and when it returns timeout or bad-response the destination is as the
\* caller passed it and no bulk was received; on success the destination holds
\* the 512 bytes of the one bulk received, and the transaction was ended right
\* after that bulk, the last single byte received being the start token, so the
\* two checksum bytes that follow were not taken from the transport.
C19_DestinationFrame ==
    /\ (op = "read512" /\ pc # "idle") =>
          (dest = ZeroBlock /\ spi.nData = 0 /\ spi.data = << >>)
    /\ Returned("read512") =>
          IF result = SDCARD_SUCCESS
            THEN /\ spi.log = <<"begin", "clocks", "send", "recv", "bulk", "end">>
                 /\ spi.nData = 512
                 /\ Len(dest) = 512
                 /\ dest = spi.data
                 /\ spi.last = 254
                 /\ spi.polls <= ctx.timeout + spi.tpolls
            ELSE /\ result \in {SDCARD_TIMEOUT, SDCARD_BADRESPONSE}
                 /\ spi.log = <<"begin", "clocks", "send", "recv", "end">>
                 /\ dest = ZeroBlock
                 /\ spi.nData = 0
                 /\ spi.data = << >>

C19_Witness ==
    /\ Returned("read512")
    /\ result = SDCARD_BADRESPONSE
    /\ spi.tpolls = 2
    /\ response = 5
    /\ dest = ZeroBlock

\* SDCard_init stops here with the result code
C20_Stops(code) == pc' = "idle" /\ result' = code

\* what the transport handed back in the exchange that just ended: the last
\* byte polled and, after a valid status of a 5-byte response, the four bytes of
\* the bulk
C20_Delivered == Len(spi.data) = 4

C20_Outcome58 ==
    IF BitAnd(spi.last, 254) # 0 THEN SDCARD_BADRESPONSE
    ELSE IF BitAnd(spi.data[1], 64) = 0 THEN SDCARD_NOTSUPPORTED
    ELSE IF BitAnd(spi.data[1], 128) = 0 THEN SDCARD_BADRESPONSE
    ELSE SDCARD_SUCCESS

\* Every decision of SDCard_init as a function of the bytes the transport
\* handed back in the step's own exchange, and of the attempt counter.
C20_Step ==
    pc = "init_ret" =>
        /\ step = "cmd0" =>
              IF spi.last = 1 THEN step' = "cmd8" ELSE C20_Stops(SDCARD_TIMEOUT)
        /\ step = "cmd8" =>
              /\ spi.last = 1 => C20_Delivered
              /\ IF spi.last = 1 /\ BitAnd(spi.data[3], 1) = 1 /\ spi.data[4] = 170
                   THEN step' = "cmd55"
                   ELSE C20_Stops(SDCARD_NOTSUPPORTED)
        /\ step = "cmd55" => step' = "cmd41"
        /\ step = "cmd41" =>
              IF spi.last = 0 THEN step' = "cmd58"
              ELSE IF i < 2999 THEN step' = "cmd55"
              ELSE C20_Stops(SDCARD_TIMEOUT)
        /\ step = "cmd58" =>
              /\ BitAnd(spi.last, 254) = 0 => C20_Delivered
              /\ C20_Stops(C20_Outcome58)

\* C20: the result of SDCard_init does not depend on what the response buffer
\* held before: the status byte every decision reads is the last byte polled in
\* the step's own exchange, payload bytes are read only after a valid status,
\* when they are the bytes of that exchange's bulk and none is indeterminate,
\* and so every decision is a function of the bytes the transport handed back.
C20_NoStaleRead ==
    /\ [](pc = "init_ret" =>
             /\ buf[1] = spi.last
             /\ buf[1] # Indeterminate
             /\ result = SDCARD_SUCCESS <=> ValidStatus(spi.last)
             /\ (result = SDCARD_SUCCESS /\ call.length = 5) =>
                   (C20_Delivered /\ SubSeq(buf, 2, 5) = spi.data)
             /\ result # SDCARD_SUCCESS => spi.data = << >>)
    /\ [][C20_Step]_vars

C20_Witness ==
    /\ Returned("init")
    /\ step = "cmd8"
    /\ result = SDCARD_NOTSUPPORTED
    /\ buf = <<255, Indeterminate, Indeterminate, Indeterminate, Indeterminate>>
    /\ spi.data = << >>

====
